---- MODULE Spec2Model ----
(***************************************************************************)
(* A model of zense_mqtt_bridge.py: the MQTT callbacks and the poller that *)
(* feed the ingress queue, the worker loop (get, accumulate, debounce,     *)
(* drain, execute), the pending map, the state publisher and the           *)
(* reconnecting session client (ZenseClient.send_command).                 *)
(***************************************************************************)
EXTENDS Integers, Sequences, FiniteSets, TLC

\* ------------------------------------------------------------------ bounds
\* Device ids run over 0..MaxDid; 0 is the fleet sentinel.
MaxDid == 2
\* The ingress queue is unbounded in the code; producers here stop at MaxQueue.
MaxQueue == 1
\* Stands for the 200 of `for _ in range(200)` in _drain.
DrainCap == 2
\* Longest intent sequence of the merge harness (SpecMerge).
MaxMerged == 4
\* Largest raw brightness of the scale_brightness harness (SpecScale).
MaxRaw == 300

\* ------------------------------------------------------- program constants
BRIGHTNESS_SCALE == 100
\* LEVEL_ON_WINDOW_SEC = 1.0; one clock tick is one second.
LEVEL_ON_WINDOW_SEC == 1
\* send_command(cmd, retry=1)
RETRY == 1

\* Optional[int]: None is the empty sequence, a value v is <<v>>.
None == <<>>
Some(v) == <<v>>

Min(a, b) == IF a <= b THEN a ELSE b
Max(a, b) == IF a >= b THEN a ELSE b

Dids == 0 .. MaxDid
\* The ids the controller reports for its devices.
CtlDids == 1 .. MaxDid

\* ------------------------------------------------------------ pure functions

\* Python's round(): n/d to the nearest integer, ties to the even one (n >= 0, d > 0).
PyRound(n, d) ==
    LET q == n \div d
        r == n % d
    IN  IF 2 * r < d THEN q
        ELSE IF 2 * r > d THEN q + 1
        ELSE IF q % 2 = 0 THEN q ELSE q + 1

scale_brightness_noclamp(raw) ==
    IF raw < 0 THEN 0
    ELSE IF raw <= BRIGHTNESS_SCALE THEN raw
    ELSE PyRound(raw * BRIGHTNESS_SCALE, 255)

scale_brightness(raw) ==
    IF raw < 0 THEN 0
    ELSE IF raw <= BRIGHTNESS_SCALE THEN raw
    ELSE PyRound(Min(raw, 255) * BRIGHTNESS_SCALE, 255)

\* max(0, min(BRIGHTNESS_SCALE, int(level)))
Clamp(level) == Max(0, Min(BRIGHTNESS_SCALE, level))

\* A payload is [text, n]: text "num" is the numeral of the integer n, any other
\* text is itself (n unused). _to_int rejects what float() rejects.
Payload(text, n) == [text |-> text, n |-> n]
_to_int(payload) == IF payload.text = "num" THEN Some(payload.n) ELSE None

\* payload.upper() on the texts of the model
Upper(text) == IF text = "on" THEN "ON" ELSE IF text = "off" THEN "OFF" ELSE text

\* ------------------------------------------------------------- pending map

\* Pending(): off=False, on=False, level=None
Pending == [off |-> FALSE, on |-> FALSE, level |-> None]

Intent(kind, did, val) == [kind |-> kind, did |-> did, val |-> val]

\* The pending dict is a sequence of [did, p] in insertion order, as a Python dict.
HasKey(pend, did) == \E i \in 1 .. Len(pend) : pend[i].did = did

\* self.pending.get(did) or Pending()
PendingGet(pend, did) ==
    IF HasKey(pend, did)
    THEN (CHOOSE e \in {pend[i] : i \in 1 .. Len(pend)} : e.did = did).p
    ELSE Pending

\* self.pending[did] = p
PendingPut(pend, did, p) ==
    IF HasKey(pend, did)
    THEN [i \in 1 .. Len(pend) |-> IF pend[i].did = did THEN [did |-> did, p |-> p] ELSE pend[i]]
    ELSE Append(pend, [did |-> did, p |-> p])

\* MergeDevice with an `on` branch that ignores what is already pending
MergeDeviceOnAlways(p, kind, val) ==
    IF kind = "off" THEN [off |-> TRUE, on |-> FALSE, level |-> None]
    ELSE IF kind = "on" THEN [p EXCEPT !.on = TRUE]
    ELSE IF kind = "level"
    THEN LET lvl == Clamp(IF val = None THEN 0 ELSE val[1])
         IN  IF lvl = 0
             THEN [off |-> TRUE, on |-> FALSE, level |-> None]
             ELSE [off |-> FALSE, on |-> FALSE, level |-> Some(lvl)]
    ELSE p

\* MergeDevice with a `level` branch that leaves p.off as it is
MergeDeviceLevelKeepsOff(p, kind, val) ==
    IF kind = "off" THEN [off |-> TRUE, on |-> FALSE, level |-> None]
    ELSE IF kind = "on"
    THEN (IF ~p.off /\ p.level = None THEN [p EXCEPT !.on = TRUE] ELSE p)
    ELSE IF kind = "level"
    THEN LET lvl == Clamp(IF val = None THEN 0 ELSE val[1])
         IN  IF lvl = 0
             THEN [off |-> TRUE, on |-> FALSE, level |-> None]
             ELSE [off |-> p.off, on |-> FALSE, level |-> Some(lvl)]
    ELSE p

\* The branch of _accumulate for off / on / level on one Pending.
MergeDevice(p, kind, val) ==
    IF kind = "off" THEN [off |-> TRUE, on |-> FALSE, level |-> None]
    ELSE IF kind = "on"
    THEN (IF ~p.off /\ p.level = None THEN [p EXCEPT !.on = TRUE] ELSE p)
    ELSE IF kind = "level"
    THEN LET lvl == Clamp(IF val = None THEN 0 ELSE val[1])
         IN  IF lvl = 0
             THEN [off |-> TRUE, on |-> FALSE, level |-> None]
             ELSE [off |-> FALSE, on |-> FALSE, level |-> Some(lvl)]
    ELSE p

\* The branch of _accumulate for discover / refresh on the fleet entry.
MergeFleet(p, kind) ==
    IF kind = "discover" THEN [p EXCEPT !.on = TRUE] ELSE [p EXCEPT !.off = TRUE]

_accumulate(pend, kind, did, val) ==
    IF kind \in {"discover", "refresh"}
    THEN PendingPut(pend, 0, MergeFleet(PendingGet(pend, 0), kind))
    ELSE PendingPut(pend, did, MergeDevice(PendingGet(pend, did), kind, val))

\* ---------------------------------------------------------- controller replies

\* A reply text by its features: k is "empty" (EOF before any byte), "partial"
\* (the expected prefix, then EOF before the end marker), "ok" (the expected
\* prefix and the end marker) ; ids, val, name are the payload fields.
Reply(k, ids, val, name) == [k |-> k, ids |-> ids, val |-> val, name |-> name]
EmptyResp == Reply("empty", <<>>, None, "")

RECURSIVE Perms(_)
\* The duplicate-free sequences over the set S.
Perms(S) ==
    {<<>>} \cup UNION {{<<x>> \o t : t \in Perms(S \ {x})} : x \in S}

DevLists == Perms(CtlDids)

Cmd(op, did, level) == [op |-> op, did |-> did, level |-> level]
NoCmd == Cmd("none", 0, 0)

\* What a working peer answers to a command, when it reports the device lists
\* `lists` and the levels `levels`.
GoodReplies(cmd, lists, levels) ==
    IF cmd.op \in {"Set", "Fade"} THEN {Reply("ok", <<>>, None, "")}
    ELSE IF cmd.op = "Get" THEN {Reply("ok", <<>>, Some(v), "") : v \in levels}
    ELSE IF cmd.op = "GetDevices" THEN {Reply("ok", l, None, "") : l \in lists}
    ELSE {Reply("ok", <<>>, None, "Lamp"), Reply("ok", <<>>, None, "Timeout")}

\* What a failing peer answers: EOF at once, EOF after part of the reply, a reply
\* whose payload is no number, a device list with a field such as a superscript
\* digit, which passes str.isdigit() and which int() rejects.
BadReplies(cmd) ==
    IF cmd.op \in {"Set", "Fade"} THEN {Reply("partial", <<>>, None, ""), EmptyResp}
    ELSE IF cmd.op = "Get" THEN {Reply("ok", <<>>, None, "Timeout"), EmptyResp}
    ELSE IF cmd.op = "GetDevices"
    THEN {Reply("ok", <<>>, None, ""), Reply("ok", <<>>, None, "baddigit"),
          Reply("partial", <<1>>, None, ""), EmptyResp}
    ELSE {EmptyResp}

\* `if resp:` -- a non-empty string
ConfirmedAlways(resp) == TRUE
Confirmed(resp) == resp.k # "empty"

\* get_level: int(val) of the text after ">>Get ", None when absent or not a number
get_level(resp) == IF resp.k # "empty" THEN resp.val ELSE None

\* get_devices: "raise" when a field passes str.isdigit() and int() rejects it
get_devices(resp) ==
    IF resp.k = "empty" THEN [raise |-> FALSE, ids |-> <<>>]
    ELSE [raise |-> resp.name = "baddigit", ids |-> resp.ids]

\* get_name: the name, or the fallback Device_<did> (here "Device")
get_name(resp) ==
    IF resp.k # "empty" /\ resp.name # "" /\ resp.name # "Timeout" THEN resp.name ELSE "Device"

\* --------------------------------------------------------------------- state
VARIABLES
    mq_connected,    \* on_connect has run: the subscriptions exist
    cmd_q,           \* Bridge.cmd_q
    pending,         \* Bridge.pending
    last_level_pub,  \* Bridge.last_level_pub
    level_age,       \* time.time() - last_level_ts.get(did, 0.0), saturating past the window
    known,           \* Bridge.known
    sock,            \* ZenseClient.sock: "none" or "open"
    logged_in,       \* ZenseClient.logged_in
    lock,            \* ZenseClient.lock: "free" or its holder
    call,            \* per caller, the send_command call in progress
    wpc,             \* where the worker thread is
    items,           \* _execute: the snapshot of pending
    do_discover,     \* _execute: do_discover
    do_refresh,      \* _execute: do_refresh
    ids,             \* _execute: ids
    idx,             \* _execute: position in the running for loop
    drained,         \* _drain: iterations done
    flushlog,        \* what the worker did since it left cmd_q.get(): operations, publishes, sleeps
    wire,            \* per device, the level last published on its state topics
    hist,            \* per device, the intents merged since the previous flush
    merged,          \* SpecMerge: the intents applied so far
    raw_in,          \* SpecScale: the input
    raw_out,         \* SpecScale: the result
    authed           \* the open connection has answered a login request with ">>Login Ok<<"

vars ==
    <<mq_connected, cmd_q, pending, last_level_pub, level_age, known, sock, logged_in,
      lock, call, wpc, items, do_discover, do_refresh, ids, idx, drained, flushlog, wire,
      hist, merged, raw_in, raw_out, authed>>

harness == <<merged, raw_in, raw_out>>
zvars == <<sock, logged_in, lock, call, authed>>
wlocals == <<items, do_discover, do_refresh, ids, idx, drained>>

Callers == {"worker", "aux"}

\* trace: the socket exchanges of the send_command call so far, "connect", "login"
\* and "send" (with or without success), and "send_error" for a send that raised
IdleCall ==
    [stage |-> "idle", cmd |-> NoCmd, attempt |-> 0, resp |-> EmptyResp, trace |-> <<>>]

NoIntent == Intent("none", 0, None)
NoHist == [last |-> NoIntent, decisive |-> NoIntent, discover |-> FALSE, refresh |-> FALSE]

Long == LEVEL_ON_WINDOW_SEC + 1

Start ==
    /\ mq_connected = FALSE
    /\ cmd_q = <<>>
    /\ pending = <<>>
    /\ last_level_pub = [d \in Dids |-> None]
    /\ level_age = [d \in Dids |-> Long]
    /\ known = <<>>
    /\ sock = "none"
    /\ logged_in = FALSE
    /\ lock = "free"
    /\ call = [c \in Callers |-> IdleCall]
    /\ wpc = "get"
    /\ items = <<>>
    /\ do_discover = FALSE
    /\ do_refresh = FALSE
    /\ ids = <<>>
    /\ idx = 1
    /\ drained = 0
    /\ flushlog = <<>>
    /\ wire = [d \in Dids |-> None]
    /\ hist = [d \in Dids |-> NoHist]
    /\ merged = <<>>
    /\ raw_out = None
    /\ authed = FALSE

Init == Start /\ raw_in = 0

\* ------------------------------------------------------------ state publisher

Event(ev, cmd, did, lvl, name) == [ev |-> ev, cmd |-> cmd, did |-> did, lvl |-> lvl, name |-> name]
Sleep == Event("sleep", NoCmd, 0, 0, "")
Op(cmd) == Event("op", cmd, cmd.did, 0, "")
StateMsg(did, lvl) == Event("state", NoCmd, did, lvl, "")
DiscMsg(did, name) == Event("disc", NoCmd, did, 0, name)

\* pub_state without the comparison with last_level_pub
pub_state_nodedup(lp, did, level) ==
    [last |-> [lp EXCEPT ![did] = Some(Clamp(level))], sent |-> <<StateMsg(did, Clamp(level))>>]

\* pub_state: the new last_level_pub and the state messages published
pub_state(lp, did, level) ==
    LET lvl == Clamp(level)
    IN  IF lp[did] = Some(lvl)
        THEN [last |-> lp, sent |-> <<>>]
        ELSE [last |-> [lp EXCEPT ![did] = Some(lvl)], sent |-> <<StateMsg(did, lvl)>>]

\* The retained level of each state topic after the messages `sent`.
Wire(w, sent) ==
    [d \in Dids |-> IF \E i \in 1 .. Len(sent) : sent[i].did = d
                    THEN Some((CHOOSE m \in {sent[i] : i \in 1 .. Len(sent)} : m.did = d).lvl)
                    ELSE w[d]]

\* The intents merged since the previous flush, per device.
Note(h, it) ==
    IF it.kind = "discover" THEN [h EXCEPT ![0].discover = TRUE]
    ELSE IF it.kind = "refresh" THEN [h EXCEPT ![0].refresh = TRUE]
    ELSE [h EXCEPT ![it.did].last = it,
                   ![it.did].decisive = IF it.kind \in {"off", "level"} THEN it ELSE @]

\* ------------------------------------------------------------------ producers

Put(it) ==
    /\ Len(cmd_q) < MaxQueue
    /\ cmd_q' = Append(cmd_q, it)

\* What a step of the MQTT thread, the poller or the clock leaves alone.
PFrame ==
    UNCHANGED <<pending, last_level_pub, known, zvars, wpc, wlocals, flushlog, wire, hist,
                harness>>

\* on_connect: subscribe, publish availability, enqueue a discovery
on_connect ==
    /\ Put(Intent("discover", 0, None))
    /\ mq_connected' = TRUE
    /\ UNCHANGED level_age
    /\ PFrame

\* on_message, topic homeassistant/status, payload online
on_status_online ==
    /\ mq_connected
    /\ Put(Intent("discover", 0, None))
    /\ UNCHANGED <<mq_connected, level_age>>
    /\ PFrame

\* on_message, topic <BASE>/<uid did>/brightness/set
on_brightness_set(did, payload) ==
    /\ mq_connected
    /\ LET raw == _to_int(payload)
       IN  IF raw = None
           THEN UNCHANGED <<cmd_q, level_age>>
           ELSE /\ Put(Intent("level", did, Some(scale_brightness(raw[1]))))
                /\ level_age' = [level_age EXCEPT ![did] = 0]
    /\ UNCHANGED mq_connected
    /\ PFrame

\* (time.time() - ts) <= LEVEL_ON_WINDOW_SEC
InWindowStrict(age) == age < LEVEL_ON_WINDOW_SEC
InWindow(age) == age <= LEVEL_ON_WINDOW_SEC

\* on_message, topic <BASE>/<uid did>/set
on_set(did, payload) ==
    /\ mq_connected
    /\ LET up == Upper(payload.text)
       IN  IF up = "OFF" THEN Put(Intent("off", did, None))
           ELSE IF up = "ON" /\ ~InWindow(level_age[did]) THEN Put(Intent("on", did, None))
           ELSE UNCHANGED cmd_q
    /\ UNCHANGED <<mq_connected, level_age>>
    /\ PFrame

\* poller_loop: one wake-up
poller_loop ==
    /\ known # <<>>
    /\ Put(Intent("refresh", 0, None))
    /\ UNCHANGED <<mq_connected, level_age>>
    /\ PFrame

\* dt seconds pass.
Tick(dt) ==
    /\ \E d \in Dids : level_age[d] <= LEVEL_ON_WINDOW_SEC
    /\ level_age' = [d \in Dids |-> Min(level_age[d] + dt, Long)]
    /\ UNCHANGED <<mq_connected, cmd_q>>
    /\ PFrame

BrPayloads(raws) == {Payload("junk", 0)} \cup {Payload("num", r) : r \in raws}
SetPayloads == {Payload("ON", 0), Payload("on", 0), Payload("OFF", 0), Payload("junk", 0)}

\* -------------------------------------------------------------- session client

\* Top of the loop body: `if not self.logged_in or not self.sock` leads to _login
EntryStage == IF logged_in /\ sock = "open" THEN "send" ELSE "connect"

\* send_command without `with self.lock:`
z_begin_nolock(c, cmd) ==
    /\ call[c].stage = "idle"
    /\ lock' = c
    /\ call' = [call EXCEPT ![c] = [IdleCall EXCEPT !.stage = EntryStage, !.cmd = cmd]]
    /\ UNCHANGED <<sock, logged_in, authed>>

\* send_command: take the lock and enter the loop
z_begin(c, cmd) ==
    /\ lock = "free"
    /\ call[c].stage = "idle"
    /\ lock' = c
    /\ call' = [call EXCEPT ![c] = [IdleCall EXCEPT !.stage = EntryStage, !.cmd = cmd]]
    /\ UNCHANGED <<sock, logged_in, authed>>

\* `return r` out of the with block, after the socket call `what`
Return(c, r, what) ==
    [call[c] EXCEPT !.stage = "ret", !.resp = r, !.trace = Append(@, what)]

\* What a session step leaves alone.
ZFrame ==
    UNCHANGED <<mq_connected, cmd_q, pending, last_level_pub, level_age, known, wpc,
                wlocals, flushlog, wire, hist, harness>>

\* _login: _connect, which closes first; ok is whether connect() succeeds
z_connect(c, ok) ==
    /\ call[c].stage = "connect"
    /\ logged_in' = FALSE
    /\ authed' = FALSE
    /\ IF ok
       THEN /\ sock' = "open"
            /\ call' = [call EXCEPT ![c].stage = "login", ![c].trace = Append(@, "connect")]
            /\ lock' = lock
       ELSE /\ sock' = "none"
            /\ call' = [call EXCEPT ![c] = Return(c, EmptyResp, "connect")]
            /\ lock' = "free"
    /\ ZFrame

\* z_login that takes any reply for the accepted marker
z_login_any(c, answer) ==
    /\ call[c].stage = "login"
    /\ authed' = (answer = "ok")
    /\ IF answer \in {"ok", "rejected"}
       THEN /\ logged_in' = TRUE
            /\ call' = [call EXCEPT ![c].stage = "send", ![c].trace = Append(@, "login")]
            /\ UNCHANGED <<sock, lock>>
       ELSE /\ sock' = "none"
            /\ logged_in' = FALSE
            /\ call' = [call EXCEPT ![c] = Return(c, EmptyResp, "login")]
            /\ lock' = "free"
    /\ ZFrame

\* _login: the login exchange on the fresh connection; answer is "ok" (the reply
\* holds the accepted marker), "rejected" (it does not) or "error" (an exception)
z_login(c, answer) ==
    /\ call[c].stage = "login"
    /\ authed' = (answer = "ok")
    /\ IF answer = "ok"
       THEN /\ logged_in' = TRUE
            /\ call' = [call EXCEPT ![c].stage = "send", ![c].trace = Append(@, "login")]
            /\ UNCHANGED <<sock, lock>>
       ELSE /\ sock' = "none"
            /\ logged_in' = FALSE
            /\ call' = [call EXCEPT ![c] = Return(c, EmptyResp, "login")]
            /\ lock' = "free"
    /\ ZFrame

\* _send_raw(cmd): sendall, then _recv gives the text r
z_send(c, r) ==
    /\ call[c].stage = "send"
    /\ call' = [call EXCEPT ![c] = Return(c, r, "send")]
    /\ lock' = "free"
    /\ UNCHANGED <<sock, logged_in, authed>>
    /\ ZFrame

\* After a socket error in attempt `attempt`: the next loop iteration, or the
\* `return ""` after the loop.
RetryStageTwice(attempt) == IF attempt + 1 <= RETRY + 1 THEN "connect" ELSE "ret"
RetryStage(attempt) == IF attempt + 1 <= RETRY THEN "connect" ELSE "ret"

\* _send_raw(cmd) raises BrokenPipeError, ConnectionResetError or another OSError
z_send_error(c) ==
    /\ call[c].stage = "send"
    /\ sock' = "none"
    /\ logged_in' = FALSE
    /\ authed' = FALSE
    /\ call' = [call EXCEPT ![c] =
           [@ EXCEPT !.stage = RetryStage(call[c].attempt), !.attempt = @ + 1,
                     !.resp = EmptyResp, !.trace = Append(@, "send_error")]]
    /\ lock' = IF RetryStage(call[c].attempt) = "ret" THEN "free" ELSE lock
    /\ ZFrame

\* ---------------------------------------------------------------- worker loop

W == "worker"
Returned == call[W].stage = "ret"
Consume == call' = [call EXCEPT ![W] = IdleCall]

\* worker_loop: cmd_q.get() and _accumulate
w_get ==
    /\ wpc = "get"
    /\ cmd_q # <<>>
    /\ LET it == Head(cmd_q)
       IN  /\ pending' = _accumulate(pending, it.kind, it.did, it.val)
           /\ hist' = Note(hist, it)
    /\ cmd_q' = Tail(cmd_q)
    /\ wpc' = "sleep"
    /\ UNCHANGED <<mq_connected, last_level_pub, level_age, known, zvars, wlocals, flushlog,
                   wire, harness>>

\* worker_loop: time.sleep(debounce_s)
w_debounce ==
    /\ wpc = "sleep"
    /\ wpc' = "drain"
    /\ drained' = 0
    /\ flushlog' = Append(flushlog, Sleep)
    /\ UNCHANGED <<mq_connected, cmd_q, pending, last_level_pub, level_age, known, zvars,
                   items, do_discover, do_refresh, ids, idx, wire, hist, harness>>

\* _drain: one iteration that finds an intent
w_drain ==
    /\ wpc = "drain"
    /\ drained < DrainCap
    /\ cmd_q # <<>>
    /\ LET it == Head(cmd_q)
       IN  /\ pending' = _accumulate(pending, it.kind, it.did, it.val)
           /\ hist' = Note(hist, it)
    /\ cmd_q' = Tail(cmd_q)
    /\ drained' = drained + 1
    /\ UNCHANGED <<mq_connected, last_level_pub, level_age, known, zvars, wpc, items,
                   do_discover, do_refresh, ids, idx, flushlog, wire, harness>>

\* any(did == 0 and p.on for did, p in items), any(did == 0 and p.off ...)
AnyFleet(its, flag) ==
    \E i \in 1 .. Len(its) : its[i].did = 0 /\ (IF flag = "on" THEN its[i].p.on ELSE its[i].p.off)

\* The statement order of _execute: the `if do_discover:` block, the
\* `if do_refresh and self.known:` block, the `for did, p in items:` loop, and
\* back to cmd_q.get().
PhaseAfterItemsFirst(phase) ==
    IF phase = "snapshot" THEN "items"
    ELSE IF phase = "items" THEN "discover"
    ELSE IF phase = "discover" THEN "refresh"
    ELSE "get"

PhaseAfter(phase) ==
    IF phase = "snapshot" THEN "discover"
    ELSE IF phase = "discover" THEN "refresh"
    ELSE IF phase = "refresh" THEN "items"
    ELSE "get"

\* The worker leaves a block of _execute; leaving the last one ends the flush.
Leave(phase) ==
    /\ wpc' = PhaseAfter(phase)
    /\ idx' = 1
    /\ IF PhaseAfter(phase) = "get"
       THEN /\ items' = <<>>
            /\ do_discover' = FALSE
            /\ do_refresh' = FALSE
            /\ hist' = [d \in Dids |-> NoHist]
            /\ flushlog' = <<>>
       ELSE UNCHANGED <<items, do_discover, do_refresh, hist, flushlog>>

\* w_snapshot without self.pending.clear()
w_snapshot_noclear ==
    /\ wpc = "drain"
    /\ drained = DrainCap \/ cmd_q = <<>>
    /\ items' = pending
    /\ do_discover' = AnyFleet(pending, "on")
    /\ do_refresh' = AnyFleet(pending, "off")
    /\ wpc' = PhaseAfter("snapshot")
    /\ idx' = 1
    /\ drained' = 0
    /\ UNCHANGED <<mq_connected, cmd_q, pending, last_level_pub, level_age, known, zvars, ids,
                   flushlog, wire, hist, harness>>

\* _drain ends (queue.Empty or the range is exhausted); _execute snapshots and clears
w_snapshot ==
    /\ wpc = "drain"
    /\ drained = DrainCap \/ cmd_q = <<>>
    /\ items' = pending
    /\ pending' = <<>>
    /\ do_discover' = AnyFleet(pending, "on")
    /\ do_refresh' = AnyFleet(pending, "off")
    /\ wpc' = PhaseAfter("snapshot")
    /\ idx' = 1
    /\ drained' = 0
    /\ UNCHANGED <<mq_connected, cmd_q, last_level_pub, level_age, known, zvars, ids,
                   flushlog, wire, hist, harness>>

\* _execute: `if do_discover:` and the get_devices call
w_discover ==
    /\ wpc = "discover"
    /\ IF do_discover
       THEN /\ z_begin(W, Cmd("GetDevices", 0, 0))
            /\ wpc' = "devices"
            /\ flushlog' = Append(flushlog, Op(Cmd("GetDevices", 0, 0)))
            /\ UNCHANGED <<items, do_discover, do_refresh, idx, hist>>
       ELSE /\ Leave("discover")
            /\ UNCHANGED zvars
    /\ UNCHANGED <<mq_connected, cmd_q, pending, last_level_pub, level_age, known, ids,
                   drained, wire, harness>>

\* `self.known = ids`
KnownAfterExtend(old, new) == old \o new
KnownAfter(old, new) == new

\* w_devices without the `if ids:` test
w_devices_always ==
    /\ wpc = "devices"
    /\ Returned
    /\ Consume
    /\ LET r == get_devices(call[W].resp)
       IN  IF r.raise
           THEN /\ wpc' = "dead"
                /\ UNCHANGED <<known, ids, idx, items, do_discover, do_refresh, hist, flushlog>>
           ELSE /\ known' = KnownAfter(known, r.ids)
                /\ ids' = r.ids
                /\ idx' = 1
                /\ wpc' = "names"
                /\ UNCHANGED <<items, do_discover, do_refresh, hist, flushlog>>
    /\ UNCHANGED <<mq_connected, cmd_q, pending, last_level_pub, level_age, sock, logged_in,
                   lock, authed, drained, wire, harness>>

\* _execute: get_devices returned; `if ids:` replaces known
w_devices ==
    /\ wpc = "devices"
    /\ Returned
    /\ Consume
    /\ LET r == get_devices(call[W].resp)
       IN  IF r.raise
           THEN /\ wpc' = "dead"
                /\ UNCHANGED <<known, ids, idx, items, do_discover, do_refresh, hist, flushlog>>
           ELSE IF r.ids # <<>>
           THEN /\ known' = KnownAfter(known, r.ids)
                /\ ids' = r.ids
                /\ idx' = 1
                /\ wpc' = "names"
                /\ UNCHANGED <<items, do_discover, do_refresh, hist, flushlog>>
           ELSE /\ Leave("discover")
                /\ UNCHANGED <<known, ids>>
    /\ UNCHANGED <<mq_connected, cmd_q, pending, last_level_pub, level_age, sock, logged_in,
                   lock, authed, drained, wire, harness>>

\* _execute: `for did in ids:` and the get_name call
w_names ==
    /\ wpc = "names"
    /\ IF idx <= Len(ids)
       THEN /\ z_begin(W, Cmd("GetName", ids[idx], 0))
            /\ wpc' = "name"
            /\ flushlog' = Append(flushlog, Op(Cmd("GetName", ids[idx], 0)))
            /\ UNCHANGED <<ids, items, do_discover, do_refresh, idx, hist>>
       ELSE /\ Leave("discover")
            /\ ids' = <<>>
            /\ UNCHANGED zvars
    /\ UNCHANGED <<mq_connected, cmd_q, pending, last_level_pub, level_age, known, drained,
                   wire, harness>>

\* _execute: get_name returned; pub_discovery and the pacing sleep
w_name ==
    /\ wpc = "name"
    /\ Returned
    /\ Consume
    /\ flushlog' = flushlog \o <<DiscMsg(ids[idx], get_name(call[W].resp)), Sleep>>
    /\ idx' = idx + 1
    /\ wpc' = "names"
    /\ UNCHANGED <<mq_connected, cmd_q, pending, last_level_pub, level_age, known, sock,
                   logged_in, lock, authed, items, do_discover, do_refresh, ids, drained, wire, hist,
                   harness>>

\* _execute: `if do_refresh and self.known:`
w_refresh ==
    /\ wpc = "refresh"
    /\ IF do_refresh /\ known # <<>>
       THEN /\ wpc' = "levels"
            /\ idx' = 1
            /\ UNCHANGED <<items, do_discover, do_refresh, hist, flushlog>>
       ELSE Leave("refresh")
    /\ UNCHANGED <<mq_connected, cmd_q, pending, last_level_pub, level_age, known, zvars,
                   ids, drained, wire, harness>>

\* _execute: `for did in self.known:` and the get_level call
w_levels ==
    /\ wpc = "levels"
    /\ IF idx <= Len(known)
       THEN /\ z_begin(W, Cmd("Get", known[idx], 0))
            /\ wpc' = "level"
            /\ flushlog' = Append(flushlog, Op(Cmd("Get", known[idx], 0)))
            /\ UNCHANGED <<items, do_discover, do_refresh, idx, hist>>
       ELSE /\ Leave("refresh")
            /\ UNCHANGED zvars
    /\ UNCHANGED <<mq_connected, cmd_q, pending, last_level_pub, level_age, known, ids,
                   drained, wire, harness>>

\* _execute: get_level returned; pub_state when not None, and the pacing sleep
w_level ==
    /\ wpc = "level"
    /\ Returned
    /\ Consume
    /\ LET lvl == get_level(call[W].resp)
           pb == IF lvl # None THEN pub_state(last_level_pub, known[idx], lvl[1])
                 ELSE [last |-> last_level_pub, sent |-> <<>>]
       IN  /\ last_level_pub' = pb.last
           /\ flushlog' = flushlog \o pb.sent \o <<Sleep>>
           /\ wire' = Wire(wire, pb.sent)
    /\ idx' = idx + 1
    /\ wpc' = "levels"
    /\ UNCHANGED <<mq_connected, cmd_q, pending, level_age, known, sock, logged_in, lock, authed,
                   items, do_discover, do_refresh, ids, drained, hist, harness>>

\* The branch of the items loop for one entry: the controller operation and the
\* level it publishes when confirmed; NoCmd when the entry has no directive.
ItemOpOnFirst(did, p) ==
    IF p.on THEN [cmd |-> Cmd("Set", did, BRIGHTNESS_SCALE), lvl |-> BRIGHTNESS_SCALE]
    ELSE IF p.off THEN [cmd |-> Cmd("Set", did, 0), lvl |-> 0]
    ELSE IF p.level # None THEN [cmd |-> Cmd("Fade", did, Clamp(p.level[1])), lvl |-> p.level[1]]
    ELSE [cmd |-> NoCmd, lvl |-> 0]

ItemOp(did, p) ==
    IF p.off THEN [cmd |-> Cmd("Set", did, 0), lvl |-> 0]
    ELSE IF p.level # None THEN [cmd |-> Cmd("Fade", did, Clamp(p.level[1])), lvl |-> p.level[1]]
    ELSE IF p.on THEN [cmd |-> Cmd("Set", did, BRIGHTNESS_SCALE), lvl |-> BRIGHTNESS_SCALE]
    ELSE [cmd |-> NoCmd, lvl |-> 0]

\* _execute: `for did, p in items:`, the skip of the fleet entry, and the call
w_items ==
    /\ wpc = "items"
    /\ IF idx > Len(items)
       THEN /\ Leave("items")
            /\ UNCHANGED zvars
       ELSE IF items[idx].did = 0 \/ ItemOp(items[idx].did, items[idx].p).cmd = NoCmd
       THEN /\ idx' = idx + 1
            /\ UNCHANGED <<wpc, items, do_discover, do_refresh, hist, flushlog, zvars>>
       ELSE /\ z_begin(W, ItemOp(items[idx].did, items[idx].p).cmd)
            /\ wpc' = "op"
            /\ flushlog' = Append(flushlog, Op(ItemOp(items[idx].did, items[idx].p).cmd))
            /\ UNCHANGED <<items, do_discover, do_refresh, idx, hist>>
    /\ UNCHANGED <<mq_connected, cmd_q, pending, last_level_pub, level_age, known, ids,
                   drained, wire, harness>>

\* _execute: set_off / fade / set_on returned; `if resp:` pub_state, and the pacing sleep
w_op ==
    /\ wpc = "op"
    /\ Returned
    /\ Consume
    /\ LET e == items[idx]
           pb == IF Confirmed(call[W].resp)
                 THEN pub_state(last_level_pub, e.did, ItemOp(e.did, e.p).lvl)
                 ELSE [last |-> last_level_pub, sent |-> <<>>]
       IN  /\ last_level_pub' = pb.last
           /\ flushlog' = flushlog \o pb.sent \o <<Sleep>>
           /\ wire' = Wire(wire, pb.sent)
    /\ idx' = idx + 1
    /\ wpc' = "items"
    /\ UNCHANGED <<mq_connected, cmd_q, pending, level_age, known, sock, logged_in, lock, authed,
                   items, do_discover, do_refresh, ids, drained, hist, harness>>

worker ==
    \/ w_get \/ w_debounce \/ w_drain \/ w_snapshot \/ w_discover \/ w_devices
    \/ w_names \/ w_name \/ w_refresh \/ w_levels \/ w_level \/ w_items \/ w_op

\* --------------------------------------------------------------- harnesses

\* SpecMerge: _accumulate applied to one more intent
m_accumulate(it) ==
    /\ Len(merged) < MaxMerged
    /\ pending' = _accumulate(pending, it.kind, it.did, it.val)
    /\ merged' = Append(merged, it)
    /\ UNCHANGED <<mq_connected, cmd_q, last_level_pub, level_age, known, zvars, wpc,
                   wlocals, flushlog, wire, hist, raw_in, raw_out>>

\* SpecScale: scale_brightness applied to the input
f_scale ==
    /\ raw_out = None
    /\ raw_out' = Some(scale_brightness(raw_in))
    /\ UNCHANGED <<mq_connected, cmd_q, pending, last_level_pub, level_age, known, zvars,
                   wpc, wlocals, flushlog, wire, hist, merged, raw_in>>

\* SpecMutex: a thread other than the worker calls send_command(cmd)
a_call(cmd) ==
    /\ z_begin("aux", cmd)
    /\ ZFrame

\* SpecMutex: that thread takes the result of its call
a_return ==
    /\ call["aux"].stage = "ret"
    /\ call' = [call EXCEPT !["aux"] = IdleCall]
    /\ UNCHANGED <<sock, logged_in, lock, authed>>
    /\ ZFrame

\* ------------------------------------------------------------- specifications

\* The controller answers every call.
session_good(lists, levels) ==
    \E c \in Callers :
        \/ z_connect(c, TRUE)
        \/ z_login(c, "ok")
        \/ \E r \in GoodReplies(call[c].cmd, lists, levels) : z_send(c, r)

\* The controller or the network fails a socket call.
session_bad ==
    \E c \in Callers :
        \/ z_connect(c, FALSE)
        \/ \E answer \in {"rejected", "error"} : z_login(c, answer)
        \/ \E r \in BadReplies(call[c].cmd) : z_send(c, r)
        \/ z_send_error(c)

fleet_events == on_connect \/ on_status_online \/ poller_loop

\* A working controller; bursts of messages for the fleet entry and one device.
Next ==
    \/ fleet_events
    \/ \E d \in {0, 1}, pl \in BrPayloads({0, 40}) : on_brightness_set(d, pl)
    \/ \E d \in {0, 1}, pl \in SetPayloads : on_set(d, pl)
    \/ Tick(Long)
    \/ worker
    \/ session_good({<<1>>}, {40})

Spec == Init /\ [][Next]_vars

\* A controller that can fail every socket call.
NextFaulty ==
    \/ fleet_events
    \/ \E pl \in BrPayloads({40}) : on_brightness_set(1, pl)
    \/ \E pl \in SetPayloads : on_set(1, pl)
    \/ Tick(Long)
    \/ worker
    \/ session_good({<<1>>}, {0, 255})
    \/ session_bad

SpecFaulty == Init /\ [][NextFaulty]_vars

\* Two devices and a clock of one-second ticks, for the suppression window.
NextIngress ==
    \/ fleet_events
    \/ \E d \in {1, 2}, pl \in BrPayloads({40}) : on_brightness_set(d, pl)
    \/ \E d \in {1, 2}, pl \in {Payload("ON", 0), Payload("junk", 0)} : on_set(d, pl)
    \/ Tick(1)
    \/ worker
    \/ session_good({<<1>>}, {40})

SpecIngress == Init /\ [][NextIngress]_vars

\* A controller that reports every device list, also one that names an id twice,
\* and can fail every socket call.
NextDiscovery ==
    \/ fleet_events
    \/ on_set(1, Payload("OFF", 0))
    \/ worker
    \/ session_good(DevLists \cup {<<1, 1>>}, {40})
    \/ session_bad

SpecDiscovery == Init /\ [][NextDiscovery]_vars

\* A second caller of send_command beside the worker, and sends that raise.
NextMutex ==
    \/ on_connect
    \/ poller_loop
    \/ on_set(1, Payload("OFF", 0))
    \/ worker
    \/ a_call(Cmd("Get", 1, 0))
    \/ a_return
    \/ session_good({<<1>>}, {40})
    \/ \E c \in Callers : z_send_error(c)

SpecMutex == Init /\ [][NextMutex]_vars

\* Every sequence of up to MaxMerged device intents, merged into one pending map.
MergeIntents ==
    {Intent(k, d, None) : k \in {"off", "on"}, d \in {1, 2}}
        \cup {Intent("level", d, Some(v)) : d \in {1, 2}, v \in {0 - 5, 0, 40, 70, 130}}

NextMerge == \E it \in MergeIntents : m_accumulate(it)

SpecMerge == Init /\ [][NextMerge]_vars

\* Every raw brightness from -5 to MaxRaw.
InitScale == Start /\ raw_in \in (0 - 5) .. MaxRaw

SpecScale == InitScale /\ [][f_scale]_vars

\* ===================================================================== claims

\* The intents of `its` addressed to device d, in order.
ForDevice(its, d) == SelectSeq(its, LAMBDA it : it.did = d)

\* The precedence table: the pending state after one more intent.
TableStep(p, it) ==
    LET off == [off |-> TRUE, on |-> FALSE, level |-> None]
        v == Max(0, Min(100, it.val[1]))
    IN  CASE it.kind = "off" -> off
          [] it.kind = "on" -> [p EXCEPT !.on = (p.on \/ (~p.off /\ p.level = None))]
          [] it.kind = "level" /\ v = 0 -> off
          [] it.kind = "level" /\ v > 0 -> [off |-> FALSE, on |-> FALSE, level |-> <<v>>]

RECURSIVE TableFold(_, _)
TableFold(p, its) ==
    IF its = <<>> THEN p ELSE TableFold(TableStep(p, Head(its)), Tail(its))

\* C1: for every sequence of Off/On/Level(v) intents merged by _accumulate into
\* an empty pending map, the entry of each device is the precedence table
\* applied to the device's intents one at a time, starting from the all-clear
\* entry (Off gives off only; On sets on only when off is false and level is
\* null; Level(v) with v clamped to 0..100 and positive gives level v only;
\* Level(0) acts as Off), a device without intents has no entry, and a retained
\* level is the clamped value of the device's last Level intent.
C1_MergeFollowsTable ==
    \A d \in CtlDids :
        LET its == ForDevice(merged, d)
            p == PendingGet(pending, d)
        IN  /\ HasKey(pending, d) <=> its # <<>>
            /\ p = TableFold([off |-> FALSE, on |-> FALSE, level |-> None], its)
            /\ p.level # None =>
                   \E i \in 1 .. Len(its) :
                       /\ its[i].kind = "level"
                       /\ p.level = <<Max(0, Min(100, its[i].val[1]))>>
                       /\ \A j \in (i + 1) .. Len(its) : its[j].kind # "level"

\* C1 witness: Level(130), Level(40) and then On were merged for device 1 with
\* an Off for device 2 in between, and device 1 holds level 40 alone.
C1_Witness ==
    /\ merged = <<Intent("level", 1, <<130>>), Intent("off", 2, None),
                  Intent("level", 1, <<40>>), Intent("on", 1, None)>>
    /\ PendingGet(pending, 1) = [off |-> FALSE, on |-> FALSE, level |-> <<40>>]

\* The worker has run the last statement of _execute and has not yet left it.
FlushEnd == wpc = "items" /\ idx > Len(items)

\* The operations of this flush, in the order they were issued.
OpsIssued == SelectSeq(flushlog, LAMBDA e : e.ev = "op")

\* The Set / Fade operations this flush issued for device d.
DeviceOps(d) ==
    SelectSeq(flushlog, LAMBDA e : e.ev = "op" /\ e.cmd.op \in {"Set", "Fade"} /\ e.cmd.did = d)

\* The controller operation an intent stands for.
OpOfIntent(it) ==
    CASE it.kind = "off" -> [op |-> "Set", did |-> it.did, level |-> 0]
      [] it.kind = "on" -> [op |-> "Set", did |-> it.did, level |-> 100]
      [] it.kind = "level" /\ it.val[1] <= 0 -> [op |-> "Set", did |-> it.did, level |-> 0]
      [] it.kind = "level" /\ it.val[1] > 0 ->
             [op |-> "Fade", did |-> it.did, level |-> Min(100, it.val[1])]

\* The flush has issued at most one Set / Fade for device d, it is `cmd` if it
\* has issued one, and it has issued one once the flush is at its end.
OneDeviceOp(d, cmd) ==
    /\ Len(DeviceOps(d)) <= 1
    /\ \A i \in 1 .. Len(DeviceOps(d)) : DeviceOps(d)[i].cmd = cmd
    /\ FlushEnd => Len(DeviceOps(d)) = 1

\* C2 as stated: the one operation a flush issues for a device with merged
\* intents is the one of the last intent merged for it, and a flush issues no
\* operation for a device without merged intents.
C2_LastMergedWins ==
    \A d \in CtlDids :
        IF hist[d].last = NoIntent THEN DeviceOps(d) = <<>>
        ELSE OneDeviceOp(d, OpOfIntent(hist[d].last))

\* C2 amended: the one operation a flush issues for a device with merged
\* intents is the one of the last Off or Level intent merged for it when there
\* is one, and Set 100 when only On intents were merged for it; a flush issues
\* no operation for a device without merged intents.
C2_LastOffOrLevelWins ==
    \A d \in CtlDids :
        IF hist[d].last = NoIntent THEN DeviceOps(d) = <<>>
        ELSE OneDeviceOp(d, OpOfIntent(IF hist[d].decisive # NoIntent
                                       THEN hist[d].decisive ELSE hist[d].last))

\* C2 witness: a flush ends in which Level(40) and then On were merged for
\* device 1, and its one operation was Fade 40.
C2_Witness ==
    /\ FlushEnd
    /\ hist[1].decisive = Intent("level", 1, <<40>>)
    /\ hist[1].last = Intent("on", 1, None)
    /\ Len(DeviceOps(1)) = 1
    /\ DeviceOps(1)[1].cmd = [op |-> "Fade", did |-> 1, level |-> 40]

\* How many entries of the sequence t are x.
Count(t, x) == Cardinality({i \in 1 .. Len(t) : t[i] = x})

\* The part of a call's trace after its first send that raised.
AfterFirstError(t) ==
    LET i == CHOOSE k \in 1 .. Len(t) :
                 t[k] = "send_error" /\ \A j \in 1 .. (k - 1) : t[j] # "send_error"
    IN  SubSeq(t, i + 1, Len(t))

IsPrefix(a, b) == Len(a) <= Len(b) /\ a = SubSeq(b, 1, Len(a))

\* One send_command call, as far as it has come.
C3_OneRetry(c) ==
    LET t == call[c].trace
        r == AfterFirstError(t)
    IN  /\ Count(t, "send") + Count(t, "send_error") <= 2
        /\ Count(t, "login") <= 2
        /\ Count(t, "send_error") >= 1 =>
               \* torn down, and about to reconnect
               /\ r = <<>> => sock = "none" /\ ~logged_in /\ call[c].stage = "connect"
               \* one reconnect, one login, one resend of the same command
               /\ \/ IsPrefix(r, <<"connect", "login", "send">>)
                  \/ IsPrefix(r, <<"connect", "login", "send_error">>)
               /\ call[c].stage = "ret" =>
                      /\ r # <<>>
                      /\ r # <<"connect", "login", "send">> => call[c].resp = EmptyResp

\* A Set / Fade returned the empty result, and the worker goes on.
C3_EmptyOpStep == wpc = "op" /\ wpc' = "items" /\ call[W].resp = EmptyResp

\* C3: a send_command call writes its command at most twice and logs in at most
\* twice; after a send that raised a socket error the session is torn down and
\* the call makes one reconnect, one login and one resend and nothing more; if
\* the reconnect, the login or the resend fails, the call returns the empty
\* result; and the step of the worker that takes an empty result of a Set or
\* Fade publishes no state and leaves last_level_pub as it is.
C3_RetryOnce ==
    /\ [](\A c \in Callers : C3_OneRetry(c))
    /\ [][C3_EmptyOpStep =>
              /\ flushlog' = flushlog \o <<Sleep>>
              /\ UNCHANGED <<last_level_pub, wire>>]_vars

\* C3 witness: a Fade raised a socket error on its first send and again on the
\* resend after one reconnect and login, and the call returned empty.
C3_Witness ==
    /\ call[W].stage = "ret"
    /\ call[W].cmd.op = "Fade"
    /\ call[W].trace = <<"connect", "login", "send_error", "connect", "login", "send_error">>
    /\ call[W].resp = EmptyResp
    /\ sock = "none"

\* What the step appends to flushlog (nothing when the step ends the flush).
Appended ==
    IF IsPrefix(flushlog, flushlog')
    THEN SubSeq(flushlog', Len(flushlog) + 1, Len(flushlog'))
    ELSE <<>>

\* C4: no step publishes for a device the level that the device's state topics
\* already hold from the previous publish for it; so between two publishes of
\* level L for device d there is a publish for d of another level.
C4_NoRepeatedPublish ==
    [][\A i \in 1 .. Len(Appended) :
           Appended[i].ev = "state" => wire[Appended[i].did] # <<Appended[i].lvl>>]_vars

\* C4 witness: a refresh has read level 0 for device 1 while the last level
\* published for device 1 is 0, and the worker is about to handle the reading.
C4_Witness ==
    /\ wpc = "level"
    /\ call[W].stage = "ret"
    /\ known[idx] = 1
    /\ get_level(call[W].resp) = <<0>>
    /\ wire[1] = <<0>>

\* Discovery operations come first, refresh operations second, device operations last.
Rank(cmd) ==
    CASE cmd.op \in {"GetDevices", "GetName"} -> 1
      [] cmd.op = "Get" -> 2
      [] cmd.op \in {"Set", "Fade"} -> 3

\* C5: among the operations a flush has issued, no refresh operation (Get)
\* precedes a discovery operation (Get Devices, Get Name), no device operation
\* (Set, Fade) precedes a discovery or refresh operation, Get Devices precedes
\* every Get Name, and when do_discover is set no other operation is issued
\* before Get Devices.
C5_FixedOrder ==
    LET ops == OpsIssued
    IN  /\ \A i, j \in 1 .. Len(ops) : i < j => Rank(ops[i].cmd) <= Rank(ops[j].cmd)
        /\ \A i, j \in 1 .. Len(ops) :
               i < j /\ ops[i].cmd.op = "GetName" => ops[j].cmd.op # "GetDevices"
        /\ do_discover /\ ops # <<>> => ops[1].cmd.op = "GetDevices"

\* C5 witness: a flush ends that issued Get Devices, Get Name, Get and a device
\* operation.
C5_Witness ==
    /\ FlushEnd
    /\ \A op \in {"GetDevices", "GetName", "Get"} :
           \E i \in 1 .. Len(OpsIssued) : OpsIssued[i].cmd.op = op
    /\ \E i \in 1 .. Len(OpsIssued) : OpsIssued[i].cmd.op \in {"Set", "Fade"}

\* The device ids of the Get Name operations of this flush, in issue order.
NameQueries ==
    LET q == SelectSeq(flushlog, LAMBDA e : e.ev = "op" /\ e.cmd.op = "GetName")
    IN  [i \in 1 .. Len(q) |-> q[i].cmd.did]

\* The device ids of the discovery messages of this flush, in publish order.
DiscPublishes ==
    LET q == SelectSeq(flushlog, LAMBDA e : e.ev = "disc")
    IN  [i \in 1 .. Len(q) |-> q[i].did]

\* get_devices has returned a non-empty list that parses, and the worker goes on.
C6_DevicesStep ==
    /\ wpc = "devices"
    /\ wpc' = "names"
    /\ call[W].resp.k # "empty"
    /\ call[W].resp.ids # <<>>

\* The name queries and discovery publishes of a flush that ran discovery.
C6_OnePerId ==
    /\ IsPrefix(NameQueries, known)
    /\ IsPrefix(DiscPublishes, NameQueries)
    /\ Len(NameQueries) <= Len(DiscPublishes) + 1
    /\ \A i \in 1 .. Len(flushlog) :
           /\ flushlog[i].ev = "op" /\ flushlog[i].cmd.op = "GetName" /\ i < Len(flushlog)
                  => flushlog[i + 1].ev = "disc" /\ flushlog[i + 1].did = flushlog[i].cmd.did
           /\ flushlog[i].ev = "disc"
                  => i < Len(flushlog) /\ flushlog[i + 1] = Sleep
    /\ wpc \notin {"names", "name"} => NameQueries = known /\ DiscPublishes = known

\* C6: the step that takes a non-empty id list L from get_devices makes known
\* exactly L; from then on in that flush the name queries issued are the
\* entries of L in order, one each, every name query that has returned is
\* followed by the discovery publish for its id and every discovery publish by
\* a pacing sleep, and once the loop is over there is exactly one name query and
\* one discovery publish for each entry of L.
C6_DiscoveryReplacesKnown ==
    /\ [][C6_DevicesStep => known' = call[W].resp.ids]_vars
    /\ [](wpc \in {"names", "name"} \/ NameQueries # <<>> => C6_OnePerId)

\* C6 witness: discovery got the list 2, 1 and its loop is over: known is 2, 1
\* and the flush holds one name query and one discovery publish for 2, then 1.
C6_Witness ==
    /\ wpc = "names"
    /\ idx > Len(ids)
    /\ ids = <<2, 1>>
    /\ known = <<2, 1>>
    /\ NameQueries = <<2, 1>>
    /\ DiscPublishes = <<2, 1>>

\* An ON message for device d is handled and puts its On intent on the queue.
OnAccepted(d) ==
    /\ on_set(d, Payload("ON", 0))
    /\ cmd_q' = Append(cmd_q, Intent("on", d, None))

\* C7: with level_age[d] the time since the last brightness message for d that
\* carried a number (beyond the window when there was none), an ON message for
\* d puts an On intent on the ingress queue exactly when level_age[d] is beyond
\* the suppression window; within the window, its bound included, the ON
\* message leaves the queue as it is. (The queue of the model takes an intent
\* only below MaxQueue.)
C7_OnSuppressedInWindow ==
    \A d \in CtlDids :
        mq_connected /\ Len(cmd_q) < MaxQueue =>
            (ENABLED OnAccepted(d) <=> level_age[d] > LEVEL_ON_WINDOW_SEC)

\* C7 witness: one second after a brightness message for device 1, with none
\* ever for device 2: an ON for device 1 is dropped, an ON for device 2 is
\* enqueued.
C7_Witness ==
    /\ mq_connected
    /\ cmd_q = <<>>
    /\ level_age[1] = LEVEL_ON_WINDOW_SEC
    /\ level_age[2] > LEVEL_ON_WINDOW_SEC
    /\ \E i \in 1 .. Len(pending) : pending[i].did = 1 /\ pending[i].p.level = <<40>>
    /\ ~ ENABLED OnAccepted(1)
    /\ ENABLED OnAccepted(2)

\* A controller operation of the refresh loop or of the items loop has
\* returned, and the worker handles its result.
ResultStep == wpc \in {"level", "op"} /\ wpc' # wpc

\* C8: a step publishes a state for device d only when it handles the non-empty
\* response of the operation issued for d; the step that handles an empty
\* response publishes nothing and leaves last_level_pub as it is; and
\* last_level_pub changes only together with a state publish.
C8_PublishOnlyOnResponse ==
    [][/\ \A i \in 1 .. Len(Appended) :
              Appended[i].ev = "state" =>
                  /\ ResultStep
                  /\ call[W].stage = "ret"
                  /\ call[W].resp # EmptyResp
                  /\ call[W].cmd.did = Appended[i].did
       /\ ResultStep /\ call[W].resp = EmptyResp =>
              /\ Appended = <<Sleep>>
              /\ UNCHANGED <<last_level_pub, wire>>
       /\ last_level_pub' # last_level_pub =>
              \E i \in 1 .. Len(Appended) : Appended[i].ev = "state"]_vars

\* C8 witness: the flush issued Set 1 0 while the last level published for
\* device 1 was 100, and went on to the pacing sleep without a publish: the
\* operation had returned the empty result.
C8_Witness ==
    /\ wpc = "items"
    /\ Len(flushlog) >= 2
    /\ flushlog[Len(flushlog) - 1] = Op(Cmd("Set", 1, 0))
    /\ flushlog[Len(flushlog)] = Sleep
    /\ last_level_pub[1] = <<100>>
    /\ wire[1] = <<100>>

\* C9: the worker never stalls: in every state it waits at cmd_q.get(), or it
\* can take a step, or one of its socket calls is pending (and returns, by the
\* claim's assumption).
C9_WorkerNeverStalls ==
    \/ wpc = "get"
    \/ call[W].stage \in {"connect", "login", "send"}
    \/ ENABLED worker

Abs(n) == IF n < 0 THEN 0 - n ELSE n

\* C10: the result of scale_brightness is 0 for a negative input, the input
\* itself for an input in 0..100, and for an input above 100 an integer nearest
\* to min(raw, 255) * 100 / 255; 255 gives 100 and 128 gives 50; the result is
\* always in 0..100.
C10_ScaleBrightness ==
    raw_out # None =>
        LET r == raw_out[1]
            capped == IF raw_in > 255 THEN 255 ELSE raw_in
        IN  /\ r \in 0 .. 100
            /\ raw_in < 0 => r = 0
            /\ raw_in \in 0 .. 100 => r = raw_in
            /\ raw_in > 100 => 2 * Abs(255 * r - 100 * capped) <= 255
            /\ raw_in = 255 => r = 100
            /\ raw_in = 128 => r = 50

\* C10 witness: the input MaxRaw, above 255, gave 100.
C10_Witness == raw_in = MaxRaw /\ raw_in > 255 /\ raw_out = <<100>>

\* A request/response exchange of caller c is in flight: its call is between
\* taking the lock and returning (connect, login, send, retry).
InFlight(c) == call[c].stage \in {"connect", "login", "send"}

\* C11: at most one caller of send_command has an exchange in flight, and the
\* caller that has one holds the lock; nobody else holds it.
C11_MutualExclusion ==
    /\ \A c1, c2 \in Callers : InFlight(c1) /\ InFlight(c2) => c1 = c2
    /\ \A c \in Callers : InFlight(c) <=> lock = c

\* C11 witness: the other caller is in the retry of its exchange (its first
\* send raised) while the worker stands before its next device operation.
C11_Witness ==
    /\ InFlight("aux")
    /\ call["aux"].trace = <<"connect", "login", "send_error", "connect">>
    /\ wpc = "items"
    /\ idx <= Len(items)
    /\ items[idx].did = 1
    /\ call[W].stage = "idle"

\* C12: every operation a flush issues comes after a sleep that follows the
\* operation issued before it (the debounce sleep, for the first one): no two
\* operations are issued without a sleep between them.
C12_PacingGapBetweenOps ==
    \A i \in 1 .. Len(flushlog) :
        flushlog[i].ev = "op" =>
            \E j \in 1 .. (i - 1) :
                /\ flushlog[j] = Sleep
                /\ \A k \in (j + 1) .. (i - 1) : flushlog[k].ev # "op"

\* C13: a send_command call whose reply ended at EOF before the end marker
\* (a "partial" reply) returns the empty result, so that the worker, which
\* publishes on a non-empty result, publishes nothing for it.
C13_EofIsFailure ==
    \A c \in Callers : call[c].stage = "ret" => call[c].resp.k # "partial"

\* C14: once a send_command call has returned the empty result, and until the
\* next call begins, the socket is closed and logged_in is false.
C14_ClosedAfterFailure ==
    \A c \in Callers :
        call[c].stage = "ret" /\ call[c].resp = EmptyResp /\ lock = "free" =>
            sock = "none" /\ ~logged_in

\* The flush is over: _execute has run its last statement, or an exception has
\* ended it.
FlushOver == FlushEnd \/ wpc = "dead"

\* The operation the priority Off, then Fade(level), then On gives an entry.
PriorityOp(d, p) ==
    CASE p.off -> [op |-> "Set", did |-> d, level |-> 0]
      [] ~p.off /\ p.level # None -> [op |-> "Fade", did |-> d, level |-> p.level[1]]
      [] ~p.off /\ p.level = None -> [op |-> "Set", did |-> d, level |-> 100]

\* C15: a flush issues at most one Set / Fade per device and none for a device
\* without an entry in the snapshot; and when the flush is over, each device
\* other than 0 with an entry in the snapshot has received exactly one, the one
\* the priority Off, Fade(level), On gives its entry.
C15_OneOpPerEntry ==
    /\ \A d \in CtlDids :
           /\ Len(DeviceOps(d)) <= 1
           /\ DeviceOps(d) # <<>> => \E i \in 1 .. Len(items) : items[i].did = d
    /\ FlushOver =>
           \A i \in 1 .. Len(items) :
               items[i].did # 0 =>
                   /\ Len(DeviceOps(items[i].did)) = 1
                   /\ DeviceOps(items[i].did)[1].cmd = PriorityOp(items[i].did, items[i].p)

\* At most one of off, on, level is set.
OneActive(p) ==
    /\ p.off => p.level = None /\ ~p.on
    /\ p.level # None => ~p.off /\ ~p.on
    /\ p.on => ~p.off /\ p.level = None

\* C16: every entry of the pending map, and of the snapshot a flush took of it,
\* for a device id other than 0 has at most one active directive.
C16_OneActiveDirective ==
    /\ \A i \in 1 .. Len(pending) : pending[i].did # 0 => OneActive(pending[i].p)
    /\ \A i \in 1 .. Len(items) : items[i].did # 0 => OneActive(items[i].p)

\* C16 witness: three intents were merged in one window, the last two for
\* device 1 being Level(40) and then On, and its entry holds level 40 alone.
C16_Witness ==
    /\ hist[1].decisive = Intent("level", 1, <<40>>)
    /\ hist[1].last = Intent("on", 1, None)
    /\ drained = 2
    /\ \E i \in 1 .. Len(pending) :
           pending[i] = [did |-> 1, p |-> [off |-> FALSE, on |-> FALSE, level |-> <<40>>]]

\* The worker is inside _execute, after the snapshot.
Executing ==
    wpc \in {"discover", "devices", "names", "name", "refresh", "levels", "level", "items",
             "op", "dead"}

\* The ids with an intent merged since the previous flush.
MergedDids ==
    {d \in Dids : hist[d].last # NoIntent}
        \cup (IF hist[0].discover \/ hist[0].refresh THEN {0} ELSE {})

\* C17: the step that ends _drain copies the pending map into the snapshot and
\* empties it; the map is empty in every state of the execute phase; the ids of
\* the map before the snapshot, and of the snapshot after it, are those with an
\* intent merged since the previous flush, and a flush issues Set / Fade only
\* for them: a directive of an earlier flush is in no later snapshot.
C17_SnapshotAndClear ==
    /\ [][wpc = "drain" /\ wpc' # "drain" => items' = pending /\ pending' = <<>>]_vars
    /\ [](/\ Executing => pending = <<>>
          /\ {pending[i].did : i \in 1 .. Len(pending)} \cup {items[i].did : i \in 1 .. Len(items)}
                 = MergedDids
          /\ \A d \in CtlDids : DeviceOps(d) # <<>> => d \in MergedDids)

\* C17 witness: the Set 0 of a flush has returned the empty result; the pending
\* map is empty and the queue holds a new intent for a later flush.
C17_Witness ==
    /\ wpc = "op"
    /\ call[W].stage = "ret"
    /\ call[W].cmd = Cmd("Set", 1, 0)
    /\ call[W].resp = EmptyResp
    /\ pending = <<>>
    /\ cmd_q # <<>>

\* C18: logged_in implies an open socket, and a call is at the write of its
\* device command only with an open socket whose connection has answered a
\* login request with the accepted marker since it was opened.
C18_LoginBeforeCommands ==
    /\ logged_in => sock = "open" /\ authed
    /\ \A c \in Callers : call[c].stage = "send" => sock = "open" /\ authed /\ logged_in

\* C18 witness: after a send that raised, the call has reconnected, its login
\* was accepted, and it is about to write the command again.
C18_Witness ==
    /\ call[W].stage = "send"
    /\ call[W].trace = <<"send_error", "connect", "login">>
    /\ authed
    /\ sock = "open"

\* get_devices has returned without ids (send_command gave the empty result,
\* the reply held no id, or the parse raised), and the worker goes on.
C19_NoIdsStep ==
    /\ wpc = "devices"
    /\ wpc' # "devices"
    /\ \/ call[W].resp.k = "empty"
       \/ call[W].resp.ids = <<>>
       \/ call[W].resp.name = "baddigit"

\* C19: the step that takes a failed or empty result of get_devices leaves
\* known as it is and does not enter the name loop; a name query is issued and
\* a discovery message published only inside the name loop, which is entered
\* only with a non-empty id list; and known changes only in the step that takes
\* a non-empty list, to that list.
C19_FailedDiscoveryKeepsKnown ==
    /\ [][C19_NoIdsStep => known' = known /\ wpc' \notin {"names", "name"}]_vars
    /\ [][(\E i \in 1 .. Len(Appended) :
               \/ Appended[i].ev = "disc"
               \/ Appended[i].ev = "op" /\ Appended[i].cmd.op = "GetName")
              => wpc \in {"names", "name"} /\ ids # <<>> /\ ids = known]_vars
    /\ [][wpc' = "names" /\ wpc \notin {"names", "name"}
              => wpc = "devices" /\ call[W].resp.ids # <<>> /\ ids' = call[W].resp.ids]_vars
    /\ [][known' # known
              => wpc = "devices" /\ call[W].resp.ids # <<>> /\ known' = call[W].resp.ids]_vars

\* C19 witness: a flush ran discovery while devices 2, 1 were known, get_devices
\* gave no ids, and the flush went on to the refresh block with known as it
\* was, having issued Get Devices alone.
C19_Witness ==
    /\ wpc = "refresh"
    /\ do_discover
    /\ known = <<2, 1>>
    /\ flushlog = <<Sleep, Op(Cmd("GetDevices", 0, 0))>>

\* C20: in the execute phase, the flush runs discovery exactly when a Discover
\* intent was merged since the previous flush, and refresh exactly when a
\* Refresh intent was, whatever Off/On/Level intents were merged with them.
C20_FleetFlagsFromFleetIntents ==
    Executing =>
        /\ do_discover <=> hist[0].discover
        /\ do_refresh <=> hist[0].refresh

====
